---- MODULE Spec2Model ----
(***************************************************************************)
(* PC-Builder: the test screen (TestWindow, src/testwindow.cpp) on which   *)
(* the six component icons are dragged onto the case, together with the    *)
(* TestChecker it talks to over the checkAnswer / getCurrentStep /         *)
(* sendAnswer signals.                                                     *)
(*                                                                         *)
(* TestWindow is modelled from src/testwindow.cpp.  TestChecker            *)
(* (testchecker.cpp), the widget form (ui_testwindow.h) and InfoBox are    *)
(* not among the sources; they are modelled from spec.md sections 3-4,     *)
(* fitted to the signals TestWindow connects to them: checkPlacement       *)
(* receives the dragged name and the SNAPPED point (line 234), and         *)
(* receiveAnswer reads the checker's step AFTER the checker has counted    *)
(* the placement (lines 339-340, 370), so the checker's counter stands at  *)
(* 7 once the sixth component is placed.                                   *)
(*                                                                         *)
(* Environment: drags start in this window's mousePressEvent only (no      *)
(* other application offers "application/x-dnditemdata" drags), all slots  *)
(* run on the GUI thread over direct connections, and the InfoBox opened   *)
(* by receiveAnswer is modal.                                              *)
(***************************************************************************)
EXTENDS Integers, Sequences, FiniteSets, TLC

VARIABLES
    currentStep,        \* TestChecker: the step counter sendCurrentStep returns
    placed,             \* TestChecker: components it has accepted (spec 4.3 locked set)
    lastSize,           \* TestWindow::lastSize
    lastName,           \* TestWindow::lastName
    location,           \* TestWindow::location (position recorded at mouse press)
    dontMove,           \* TestWindow::dontMove (QStringList)
    reset,              \* TestWindow::reset
    progressBar,        \* ui->progressBar->value()
    labelVisible,       \* ui->progressLabel shown / hidden
    labelText,          \* ui->progressLabel->text()
    progressLabelIndex, \* TestWindow::progressLabelIndex
    pos,                \* position of the icon of each component
    size,               \* size of the icon of each component (set by the form)
    winWindows,         \* number of completedTesting emissions (WinWindows opened)
    pc,                 \* where the GUI thread is: idle, dragging, dialog, hidden
    last,               \* the last drop handed to the checker and its answer
    ignored             \* the child whose mouse press returned early, "none" after a drag

vars == <<currentStep, placed, lastSize, lastName, location, dontMove, reset,
          progressBar, labelVisible, labelText, progressLabelIndex, pos, size,
          winWindows, pc, last, ignored>>

-----------------------------------------------------------------------------
(* Program constants *)

\* The number of components to place: receiveAnswer's "step == 6" and "/ 6.0".
N == 6

\* progressLabelColors.size(): the seven colours listed in the constructor.
NumColors == 7

\* "Almost There!" threshold of the progress bar.
HalfWay == 50

\* The value the progress bar shows when the test is finished.
Full == 100

\* The draggable icons of the form.
Components ==
    {"motherboardLabel", "cpuLabel", "memoryLabel", "gpuLabel", "ramLabel1", "ramLabel2"}

\* dontMove as the constructor fills it: the backdrop widgets.
StaticWidgets == <<"caseLabel", "centralwidget">>

\* Every child widget a mouse press can land on.
Children == Components \cup {"caseLabel", "centralwidget"}

Range(s) == {s[i] : i \in 1..Len(s)}

\* The locked set of the spec: what receiveAnswer appended to dontMove.
Locked == SubSeq(dontMove, Len(StaticWidgets) + 1, Len(dontMove))

-----------------------------------------------------------------------------
(* The widget form (ui_testwindow.h, not among the sources) *)

\* Where the form puts the icons before any drag: a tray right of the case.
InitPos ==
    [c \in Components |->
        CASE c = "motherboardLabel" -> <<600, 40>>
          [] c = "cpuLabel"         -> <<600, 140>>
          [] c = "memoryLabel"      -> <<600, 240>>
          [] c = "gpuLabel"         -> <<600, 340>>
          [] c = "ramLabel1"        -> <<600, 440>>
          [] c = "ramLabel2"        -> <<700, 440>>]

\* Icon sizes the form may give: one even-sized set and one with odd sizes.
SizeProfiles ==
    { [c \in Components |->
        CASE c = "motherboardLabel" -> <<300, 346>>
          [] c = "cpuLabel"         -> <<80, 80>>
          [] c = "memoryLabel"      -> <<90, 50>>
          [] c = "gpuLabel"         -> <<150, 180>>
          [] OTHER                  -> <<20, 140>>],
      [c \in Components |->
        CASE c = "motherboardLabel" -> <<301, 345>>
          [] c = "cpuLabel"         -> <<81, 79>>
          [] c = "memoryLabel"      -> <<91, 110>>
          [] c = "gpuLabel"         -> <<151, 181>>
          [] OTHER                  -> <<21, 141>>] }

\* The value the form gives the progress bar.
InitialProgress == 0

-----------------------------------------------------------------------------
(* Cursor points offered to the drop handler *)

DropPoints ==
    { <<300, 400>>,   \* motherboard zone; memory zone from step 2
      <<320, 300>>,   \* CPU zone (inside the motherboard zone)
      <<320, 372>>,   \* in the CPU zone and in the memory zone
      <<320, 500>>,   \* GPU zone
      <<430, 300>>,   \* first RAM zone
      <<450, 300>>,   \* second RAM zone
      <<440, 300>>,   \* on the edge the two RAM zones share
      <<200, 300>>,   \* motherboard zone only
      <<306, 425>>,   \* no zone; centres a 91x110 icon on (260, 370)
      <<100, 100>> }  \* no zone

-----------------------------------------------------------------------------
(* TestWindow::snapLocation *)

\* C++ conversion of the double v2/2 to int: truncation toward zero.
TruncHalf(v2) == IF v2 >= 0 THEN v2 \div 2 ELSE -((-v2) \div 2)

\* QPoint(cursor.x() - .5 * lastSize.width(), cursor.y() - .5 * lastSize.height())
CursorFollow(cursor, sz) ==
    <<TruncHalf(2 * cursor[1] - sz[1]), TruncHalf(2 * cursor[2] - sz[2])>>

InRect(cursor, x1, x2, y1, y2) ==
    x1 <= cursor[1] /\ cursor[1] <= x2 /\ y1 <= cursor[2] /\ cursor[2] <= y2

InMotherboard(cursor) == InRect(cursor, 150, 450, 290, 590)
InCpu(cursor)         == InRect(cursor, 315, 395, 295, 375)
InMemory(cursor)      == InRect(cursor, 260, 350, 370, 420)
InGpu(cursor)         == InRect(cursor, 300, 350, 430, 550)
InRam1(cursor)        == InRect(cursor, 420, 440, 280, 410)
InRam2(cursor)        == InRect(cursor, 440, 460, 280, 410)

\* The memory rectangle tested before the CPU rectangle.
snapLocation_memoryFirst(cursor, step, sz) ==
    IF step = 1
    THEN IF InMotherboard(cursor) THEN <<200, 245>> ELSE CursorFollow(cursor, sz)
    ELSE IF step \in 2..6
    THEN IF InMemory(cursor) THEN <<260, 370>>
         ELSE IF InCpu(cursor) THEN <<315, 295>>
         ELSE IF InGpu(cursor) THEN <<200, 370>>
         ELSE IF InRam1(cursor) THEN <<423, 270>>
         ELSE IF InRam2(cursor) THEN <<443, 270>>
         ELSE CursorFollow(cursor, sz)
    ELSE CursorFollow(cursor, sz)

\* The two RAM rectangles tested in the other order.
snapLocation_ramSwapped(cursor, step, sz) ==
    IF step = 1
    THEN IF InMotherboard(cursor) THEN <<200, 245>> ELSE CursorFollow(cursor, sz)
    ELSE IF step \in 2..6
    THEN IF InCpu(cursor) THEN <<315, 295>>
         ELSE IF InMemory(cursor) THEN <<260, 370>>
         ELSE IF InGpu(cursor) THEN <<200, 370>>
         ELSE IF InRam2(cursor) THEN <<443, 270>>
         ELSE IF InRam1(cursor) THEN <<423, 270>>
         ELSE CursorFollow(cursor, sz)
    ELSE CursorFollow(cursor, sz)

\* The upper bounds of the rectangles tested with "<" instead of "<=".
snapLocation_openUpper(cursor, step, sz) ==
    IF step = 1
    THEN IF InMotherboard(cursor) /\ cursor[1] # 450 /\ cursor[2] # 590
         THEN <<200, 245>> ELSE CursorFollow(cursor, sz)
    ELSE IF step \in 2..6
    THEN IF InCpu(cursor) /\ cursor[1] # 395 /\ cursor[2] # 375 THEN <<315, 295>>
         ELSE IF InMemory(cursor) /\ cursor[1] # 350 /\ cursor[2] # 420
         THEN <<260, 370>>
         ELSE IF InGpu(cursor) /\ cursor[1] # 350 /\ cursor[2] # 550
         THEN <<200, 370>>
         ELSE IF InRam1(cursor) /\ cursor[1] # 440 /\ cursor[2] # 410
         THEN <<423, 270>>
         ELSE IF InRam2(cursor) /\ cursor[1] # 460 /\ cursor[2] # 410
         THEN <<443, 270>>
         ELSE CursorFollow(cursor, sz)
    ELSE CursorFollow(cursor, sz)

snapLocation(cursor, step, sz) ==
    IF step = 1
    THEN IF InMotherboard(cursor) THEN <<200, 245>> ELSE CursorFollow(cursor, sz)
    ELSE IF step \in 2..6
    THEN IF InCpu(cursor) THEN <<315, 295>>
         ELSE IF InMemory(cursor) THEN <<260, 370>>
         ELSE IF InGpu(cursor) THEN <<200, 370>>
         ELSE IF InRam1(cursor) THEN <<423, 270>>
         ELSE IF InRam2(cursor) THEN <<443, 270>>
         ELSE CursorFollow(cursor, sz)
    ELSE CursorFollow(cursor, sz)

-----------------------------------------------------------------------------
(* TestChecker (testchecker.cpp is not among the sources; spec.md 4.1-4.4) *)

\* Zone Catalog: the canonical point of each component's zone.
CanonicalPoint(part) ==
    CASE part = "motherboardLabel" -> <<200, 245>>
      [] part = "cpuLabel"         -> <<315, 295>>
      [] part = "memoryLabel"      -> <<260, 370>>
      [] part = "gpuLabel"         -> <<200, 370>>
      [] part = "ramLabel1"        -> <<423, 270>>
      [] part = "ramLabel2"        -> <<443, 270>>
      [] OTHER                     -> <<0 - 1, 0 - 1>>

\* spec 4.3: stage 1 takes the prerequisite only, stages 2..N any other component.
Eligible(part, step) ==
    \/ step = 1 /\ part = "motherboardLabel"
    \/ step \in 2..N /\ part \in Components \ {"motherboardLabel"}

\* TestChecker::sendCurrentStep
sendCurrentStep == currentStep

\* TestChecker::checkPlacement(part, point): what it answers and its next state.
\* answered = FALSE is the no-op of spec 4.4 step 1 (part already locked).
checkPlacement(part, point) ==
    IF part \in placed
    THEN [answered |-> FALSE, correctness |-> FALSE,
          step |-> currentStep, placed |-> placed]
    ELSE IF Eligible(part, currentStep) /\ point = CanonicalPoint(part)
    THEN [answered |-> TRUE, correctness |-> TRUE,
          step |-> currentStep + 1, placed |-> placed \cup {part}]
    ELSE [answered |-> TRUE, correctness |-> FALSE,
          step |-> currentStep, placed |-> placed]

-----------------------------------------------------------------------------
(* TestWindow *)

\* The bar value rounded to nearest instead of truncated.
ProgressValue_round(k) == (2 * k * Full + N) \div (2 * N)

\* ui->progressBar->setValue(progress * 100.0) with progress = k / 6.0
ProgressValue(k) == (k * Full) \div N

-----------------------------------------------------------------------------
(* Variants of receiveAnswer, each with one plausible slip *)

\* "step" taken without the "- 1": the win branch fires one placement early.
receiveAnswer_noMinusOne(got, correctness, part, newLocation) ==
    LET step == got IN
    IF step = N /\ correctness
    THEN /\ location' = newLocation
         /\ dontMove' = Append(dontMove, part)
         /\ winWindows' = winWindows + 1
         /\ progressBar' = ProgressValue(step)
         /\ IF ProgressValue(step) = Full
            THEN labelVisible' = TRUE /\ labelText' = "Nice Job!"
            ELSE UNCHANGED <<labelVisible, labelText>>
         /\ UNCHANGED reset
         /\ pc' = "idle"
    ELSE IF correctness
    THEN /\ location' = newLocation
         /\ dontMove' = Append(dontMove, part)
         /\ progressBar' = ProgressValue((step + 1) - 1)
         /\ IF ProgressValue((step + 1) - 1) >= HalfWay
            THEN labelVisible' = TRUE /\ labelText' = "Almost There!"
            ELSE labelVisible' = FALSE /\ UNCHANGED labelText
         /\ UNCHANGED <<reset, winWindows>>
         /\ pc' = "dialog"
    ELSE /\ reset' = TRUE
         /\ UNCHANGED <<location, dontMove, progressBar, labelVisible, labelText,
                        winWindows>>
         /\ pc' = "dialog"

\* The incorrect branch recomputes the bar from the step before the current one.
receiveAnswer_penalty(got, correctness, part, newLocation) ==
    LET step == got - 1 IN
    IF step = N /\ correctness
    THEN /\ location' = newLocation
         /\ dontMove' = Append(dontMove, part)
         /\ winWindows' = winWindows + 1
         /\ progressBar' = ProgressValue(step)
         /\ IF ProgressValue(step) = Full
            THEN labelVisible' = TRUE /\ labelText' = "Nice Job!"
            ELSE UNCHANGED <<labelVisible, labelText>>
         /\ UNCHANGED reset
         /\ pc' = "idle"
    ELSE IF correctness
    THEN /\ location' = newLocation
         /\ dontMove' = Append(dontMove, part)
         /\ progressBar' = ProgressValue((step + 1) - 1)
         /\ IF ProgressValue((step + 1) - 1) >= HalfWay
            THEN labelVisible' = TRUE /\ labelText' = "Almost There!"
            ELSE labelVisible' = FALSE /\ UNCHANGED labelText
         /\ UNCHANGED <<reset, winWindows>>
         /\ pc' = "dialog"
    ELSE /\ reset' = TRUE
         /\ progressBar' = IF step > 0 THEN ProgressValue(step - 1) ELSE progressBar
         /\ UNCHANGED <<location, dontMove, labelVisible, labelText, winWindows>>
         /\ pc' = "dialog"

\* The incorrect branch locks the part as the two correct branches do.
receiveAnswer_lockOnWrong(got, correctness, part, newLocation) ==
    LET step == got - 1 IN
    IF step = N /\ correctness
    THEN /\ location' = newLocation
         /\ dontMove' = Append(dontMove, part)
         /\ winWindows' = winWindows + 1
         /\ progressBar' = ProgressValue(step)
         /\ IF ProgressValue(step) = Full
            THEN labelVisible' = TRUE /\ labelText' = "Nice Job!"
            ELSE UNCHANGED <<labelVisible, labelText>>
         /\ UNCHANGED reset
         /\ pc' = "idle"
    ELSE IF correctness
    THEN /\ location' = newLocation
         /\ dontMove' = Append(dontMove, part)
         /\ progressBar' = ProgressValue((step + 1) - 1)
         /\ IF ProgressValue((step + 1) - 1) >= HalfWay
            THEN labelVisible' = TRUE /\ labelText' = "Almost There!"
            ELSE labelVisible' = FALSE /\ UNCHANGED labelText
         /\ UNCHANGED <<reset, winWindows>>
         /\ pc' = "dialog"
    ELSE /\ reset' = TRUE
         /\ dontMove' = Append(dontMove, part)
         /\ UNCHANGED <<location, progressBar, labelVisible, labelText, winWindows>>
         /\ pc' = "dialog"

\* The "else" before "if (correctness)" is missing: the sixth placement runs
\* the win branch and then the ordinary correct branch.
receiveAnswer_missingElse(got, correctness, part, newLocation) ==
    LET step == got - 1 IN
    IF step = N /\ correctness
    THEN /\ location' = newLocation
         /\ dontMove' = Append(Append(dontMove, part), part)
         /\ winWindows' = winWindows + 1
         /\ progressBar' = ProgressValue((step + 1) - 1)
         /\ labelVisible' = TRUE /\ labelText' = "Almost There!"
         /\ UNCHANGED reset
         /\ pc' = "dialog"
    ELSE IF correctness
    THEN /\ location' = newLocation
         /\ dontMove' = Append(dontMove, part)
         /\ progressBar' = ProgressValue((step + 1) - 1)
         /\ IF ProgressValue((step + 1) - 1) >= HalfWay
            THEN labelVisible' = TRUE /\ labelText' = "Almost There!"
            ELSE labelVisible' = FALSE /\ UNCHANGED labelText
         /\ UNCHANGED <<reset, winWindows>>
         /\ pc' = "dialog"
    ELSE /\ reset' = TRUE
         /\ UNCHANGED <<location, dontMove, progressBar, labelVisible, labelText,
                        winWindows>>
         /\ pc' = "dialog"

\* The win branch forgets dontMove.append: the sixth component stays
\* draggable after completion.
receiveAnswer_winNoLock(got, correctness, part, newLocation) ==
    LET step == got - 1 IN
    IF step = N /\ correctness
    THEN /\ location' = newLocation
         /\ winWindows' = winWindows + 1
         /\ progressBar' = ProgressValue(step)
         /\ IF ProgressValue(step) = Full
            THEN labelVisible' = TRUE /\ labelText' = "Nice Job!"
            ELSE UNCHANGED <<labelVisible, labelText>>
         /\ UNCHANGED <<reset, dontMove>>
         /\ pc' = "idle"
    ELSE IF correctness
    THEN /\ location' = newLocation
         /\ dontMove' = Append(dontMove, part)
         /\ progressBar' = ProgressValue((step + 1) - 1)
         /\ IF ProgressValue((step + 1) - 1) >= HalfWay
            THEN labelVisible' = TRUE /\ labelText' = "Almost There!"
            ELSE labelVisible' = FALSE /\ UNCHANGED labelText
         /\ UNCHANGED <<reset, winWindows>>
         /\ pc' = "dialog"
    ELSE /\ reset' = TRUE
         /\ UNCHANGED <<location, dontMove, progressBar, labelVisible, labelText,
                        winWindows>>
         /\ pc' = "dialog"

\* The "Almost There!" test written "> 50" instead of ">= 50".
receiveAnswer_strictHalf(got, correctness, part, newLocation) ==
    LET step == got - 1 IN
    IF step = N /\ correctness
    THEN /\ location' = newLocation
         /\ dontMove' = Append(dontMove, part)
         /\ winWindows' = winWindows + 1
         /\ progressBar' = ProgressValue(step)
         /\ IF ProgressValue(step) = Full
            THEN labelVisible' = TRUE /\ labelText' = "Nice Job!"
            ELSE UNCHANGED <<labelVisible, labelText>>
         /\ UNCHANGED reset
         /\ pc' = "idle"
    ELSE IF correctness
    THEN /\ location' = newLocation
         /\ dontMove' = Append(dontMove, part)
         /\ progressBar' = ProgressValue((step + 1) - 1)
         /\ IF ProgressValue((step + 1) - 1) > HalfWay
            THEN labelVisible' = TRUE /\ labelText' = "Almost There!"
            ELSE labelVisible' = FALSE /\ UNCHANGED labelText
         /\ UNCHANGED <<reset, winWindows>>
         /\ pc' = "dialog"
    ELSE /\ reset' = TRUE
         /\ UNCHANGED <<location, dontMove, progressBar, labelVisible, labelText,
                        winWindows>>
         /\ pc' = "dialog"

\* TestWindow::receiveAnswer, up to the point where it opens its InfoBox.
\* got is what getCurrentStep() returns when the slot runs.
receiveAnswer(got, correctness, part, newLocation) ==
    LET step == got - 1 IN
    IF step = N /\ correctness
    THEN /\ location' = newLocation
         /\ dontMove' = Append(dontMove, part)
         /\ winWindows' = winWindows + 1
         /\ progressBar' = ProgressValue(step)
         /\ IF ProgressValue(step) = Full
            THEN labelVisible' = TRUE /\ labelText' = "Nice Job!"
            ELSE UNCHANGED <<labelVisible, labelText>>
         /\ UNCHANGED reset
         /\ pc' = "idle"
    ELSE IF correctness
    THEN /\ location' = newLocation
         /\ dontMove' = Append(dontMove, part)
         /\ progressBar' = ProgressValue((step + 1) - 1)
         /\ IF ProgressValue((step + 1) - 1) >= HalfWay
            THEN labelVisible' = TRUE /\ labelText' = "Almost There!"
            ELSE labelVisible' = FALSE /\ UNCHANGED labelText
         /\ UNCHANGED <<reset, winWindows>>
         /\ pc' = "dialog"
    ELSE /\ reset' = TRUE
         /\ UNCHANGED <<location, dontMove, progressBar, labelVisible, labelText,
                        winWindows>>
         /\ pc' = "dialog"

\* mousePressEvent without the dontMove.contains() test.
mousePressEvent_noContains(child) ==
    /\ pc = "idle"
    /\ IF child \notin Components
       THEN /\ ignored' = child
            /\ UNCHANGED <<currentStep, placed, lastSize, lastName, location,
                           dontMove, reset, progressBar, labelVisible, labelText,
                           progressLabelIndex, pos, size, winWindows, pc, last>>
       ELSE /\ lastSize' = size[child]
            /\ lastName' = child
            /\ location' = pos[child]
            /\ pc' = "dragging"
            /\ ignored' = "none"
            /\ UNCHANGED <<currentStep, placed, dontMove, reset, progressBar,
                           labelVisible, labelText, progressLabelIndex, pos, size,
                           winWindows, last>>

\* mousePressEvent that does not record child->pos() in location.
mousePressEvent_staleLocation(child) ==
    /\ pc = "idle"
    /\ IF child \notin Components \/ child \in Range(dontMove)
       THEN /\ ignored' = child
            /\ UNCHANGED <<currentStep, placed, lastSize, lastName, location,
                           dontMove, reset, progressBar, labelVisible, labelText,
                           progressLabelIndex, pos, size, winWindows, pc, last>>
       ELSE /\ lastSize' = size[child]
            /\ lastName' = child
            /\ pc' = "dragging"
            /\ ignored' = "none"
            /\ UNCHANGED <<currentStep, placed, location, dontMove, reset,
                           progressBar, labelVisible, labelText, progressLabelIndex,
                           pos, size, winWindows, last>>

\* The result box shown without blocking the window: a press is also taken
\* while the box is open.
mousePressEvent_duringDialog(child) ==
    /\ pc \in {"idle", "dialog"}
    /\ IF child \notin Components \/ child \in Range(dontMove)
       THEN /\ ignored' = child
            /\ UNCHANGED <<currentStep, placed, lastSize, lastName, location,
                           dontMove, reset, progressBar, labelVisible, labelText,
                           progressLabelIndex, pos, size, winWindows, pc, last>>
       ELSE /\ lastSize' = size[child]
            /\ lastName' = child
            /\ location' = pos[child]
            /\ pc' = "dragging"
            /\ ignored' = "none"
            /\ UNCHANGED <<currentStep, placed, dontMove, reset, progressBar,
                           labelVisible, labelText, progressLabelIndex, pos, size,
                           winWindows, last>>

\* TestWindow::mousePressEvent, up to drag->exec()
mousePressEvent(child) ==
    /\ pc = "idle"
    /\ IF child \notin Components \/ child \in Range(dontMove)
       THEN /\ ignored' = child
            /\ UNCHANGED <<currentStep, placed, lastSize, lastName, location,
                           dontMove, reset, progressBar, labelVisible, labelText,
                           progressLabelIndex, pos, size, winWindows, pc, last>>
       ELSE /\ lastSize' = size[child]
            /\ lastName' = child
            /\ location' = pos[child]
            /\ pc' = "dragging"
            /\ ignored' = "none"
            /\ UNCHANGED <<currentStep, placed, dontMove, reset, progressBar,
                           labelVisible, labelText, progressLabelIndex, pos, size,
                           winWindows, last>>

\* The drag ends outside the window: drag->exec() returns without a drop.
dragCancelled ==
    /\ pc = "dragging"
    /\ pc' = "idle"
    /\ UNCHANGED <<currentStep, placed, lastSize, lastName, location, dontMove,
                   reset, progressBar, labelVisible, labelText, progressLabelIndex,
                   pos, size, winWindows, last, ignored>>

\* TestWindow::dropEvent, up to the InfoBox receiveAnswer opens (if it opens one)
dropEvent(cursor) ==
    /\ pc = "dragging"
    /\ LET newLocal == snapLocation(cursor, sendCurrentStep, lastSize)
           chk      == checkPlacement(lastName, newLocal)
       IN /\ currentStep' = chk.step
          /\ placed' = chk.placed
          /\ pos' = [pos EXCEPT ![lastName] = newLocal]
          /\ last' = [part |-> lastName, cursor |-> cursor, stage |-> currentStep,
                      snapped |-> newLocal, origin |-> pos[lastName],
                      answered |-> chk.answered, correct |-> chk.correctness]
          /\ IF chk.answered
             THEN receiveAnswer(chk.step, chk.correctness, lastName, newLocal)
             ELSE /\ pc' = "idle"
                  /\ UNCHANGED <<location, dontMove, reset, progressBar,
                                 labelVisible, labelText, winWindows>>
          /\ UNCHANGED <<lastSize, lastName, progressLabelIndex, size, ignored>>

\* dropEvent moves the icon back but leaves reset set.
dialogClosed_keepReset ==
    /\ pc = "dialog"
    /\ IF reset
       THEN pos' = [pos EXCEPT ![lastName] = location]
       ELSE UNCHANGED pos
    /\ pc' = "idle"
    /\ UNCHANGED <<currentStep, placed, lastSize, lastName, location, dontMove,
                   reset, progressBar, labelVisible, labelText, progressLabelIndex,
                   size, winWindows, last, ignored>>

\* The InfoBox is closed: receiveAnswer returns, dropEvent applies the revert.
dialogClosed ==
    /\ pc = "dialog"
    /\ IF reset
       THEN pos' = [pos EXCEPT ![lastName] = location] /\ reset' = FALSE
       ELSE UNCHANGED <<pos, reset>>
    /\ pc' = "idle"
    /\ UNCHANGED <<currentStep, placed, lastSize, lastName, location, dontMove,
                   progressBar, labelVisible, labelText, progressLabelIndex, size,
                   winWindows, last, ignored>>

\* TestWindow::updateProgressLabel (the 200 ms timer)
updateProgressLabel ==
    /\ progressLabelIndex' = (progressLabelIndex + 1) % NumColors
    /\ UNCHANGED <<currentStep, placed, lastSize, lastName, location, dontMove,
                   reset, progressBar, labelVisible, labelText, pos, size,
                   winWindows, pc, last, ignored>>

\* TestWindow::onBackButtonClicked: this window is hidden for good; the exercise
\* goes on in a new TestWindow, which starts from Init.
onBackButtonClicked ==
    /\ pc = "idle"
    /\ pc' = "hidden"
    /\ UNCHANGED <<currentStep, placed, lastSize, lastName, location, dontMove,
                   reset, progressBar, labelVisible, labelText, progressLabelIndex,
                   pos, size, winWindows, last, ignored>>

NoDrop ==
    [part |-> "none", cursor |-> <<0, 0>>, stage |-> 0, snapped |-> <<0, 0>>,
     origin |-> <<0, 0>>, answered |-> FALSE, correct |-> FALSE]

\* TestWindow::TestWindow and the TestChecker it creates
Init ==
    /\ currentStep = 1
    /\ placed = {}
    /\ lastSize = <<0, 0>>
    /\ lastName = "none"
    /\ location = <<0, 0>>
    /\ dontMove = StaticWidgets
    /\ reset = FALSE
    /\ progressBar = InitialProgress
    /\ labelVisible = FALSE
    /\ labelText = ""
    /\ progressLabelIndex = 0
    /\ pos = InitPos
    /\ size \in SizeProfiles
    /\ winWindows = 0
    /\ pc = "idle"
    /\ last = NoDrop
    /\ ignored = "none"

Next ==
    \/ \E child \in Children : mousePressEvent(child)
    \/ \E cursor \in DropPoints : dropEvent(cursor)
    \/ dragCancelled
    \/ dialogClosed
    \/ updateProgressLabel
    \/ onBackButtonClicked

Spec == Init /\ [][Next]_vars

-----------------------------------------------------------------------------
(* The drop handler on a fine grid of cursor points, started in the middle   *)
(* of a drag at each step 1..N: the state the window is in after k - 1       *)
(* placements and a mouse press on a component that is still in the tray.    *)

\* How far around every edge of a snap rectangle the grid reaches.
Margin == 1

XEdges == {150, 450, 315, 395, 260, 350, 300, 420, 440, 460}
YEdges == {290, 590, 295, 375, 370, 420, 430, 550, 280, 410}

GridX == {x + d : x \in XEdges, d \in (0 - Margin)..Margin} \cup {100, 200, 330}
GridY == {y + d : y \in YEdges, d \in (0 - Margin)..Margin} \cup {100, 300, 400, 500}

Grid == GridX \X GridY

Others == <<"cpuLabel", "memoryLabel", "gpuLabel", "ramLabel1", "ramLabel2">>

\* The k - 1 components locked before a drag of part at step k.
LockedBefore(k, part) ==
    IF k = 1 THEN <<>>
    ELSE <<"motherboardLabel">> \o
         SubSeq(SelectSeq(Others, LAMBDA c : c # part), 1, k - 2)

InitSnap ==
    \E k \in 1..N, part \in Components :
        /\ (k > 1) => (part # "motherboardLabel")
        /\ size \in SizeProfiles
        /\ currentStep = k
        /\ placed = Range(LockedBefore(k, part))
        /\ lastSize = size[part]
        /\ lastName = part
        /\ location = InitPos[part]
        /\ dontMove = StaticWidgets \o LockedBefore(k, part)
        /\ reset = FALSE
        /\ progressBar = ProgressValue(k - 1)
        /\ labelVisible = (ProgressValue(k - 1) >= HalfWay)
        /\ labelText = IF ProgressValue(k - 1) >= HalfWay THEN "Almost There!" ELSE ""
        /\ progressLabelIndex = 0
        /\ pos = [c \in Components |->
                    IF c \in Range(LockedBefore(k, part))
                    THEN CanonicalPoint(c) ELSE InitPos[c]]
        /\ winWindows = 0
        /\ pc = "dragging"
        /\ last = NoDrop
        /\ ignored = "none"

NextSnap ==
    \/ \E cursor \in Grid : dropEvent(cursor)
    \/ dialogClosed

SnapSpec == InitSnap /\ [][NextSnap]_vars

-----------------------------------------------------------------------------
(* Properties *)

\* completedTesting has been emitted: the spec's isCompleted()
isCompleted == winWindows > 0

\* C1: completion becomes true exactly on the drop that brings the locked set to
\* N = 6 with a correct placement: completedTesting is emitted on that step and
\* on no other (not earlier, not on an incorrect drop), and once emitted,
\* isCompleted stays true in every later state.
C1_CompletionExact ==
    [][ /\ (winWindows' # winWindows) =>
              /\ winWindows = 0 /\ winWindows' = 1
              /\ pc = "dragging" /\ last'.answered /\ last'.correct
              /\ last'.part = lastName
              /\ Len(Locked) = N - 1 /\ Len(Locked') = N
        /\ (Len(Locked') = N /\ Len(Locked) # N) => winWindows' # winWindows
        /\ (winWindows' > 0) <=> (Len(Locked') = N)
        /\ isCompleted => isCompleted' ]_vars

C1_Witness ==
    /\ isCompleted /\ Len(Locked) = N /\ last.correct /\ last.stage = N
    /\ pc = "hidden"

\* C2: the value written to the progress bar never decreases from a state to
\* the next, whatever is dropped where.
C2_ProgressMonotone == [][progressBar' >= progressBar]_vars

C2_Witness ==
    /\ progressBar = ProgressValue(2) /\ last.answered /\ ~last.correct
    /\ pc = "idle" /\ last.part \notin Range(dontMove)

\* C3: while the checker is at step 1, a drop of any component other than
\* motherboardLabel is answered incorrect (the revert is requested) and leaves
\* the step, the locked set and the progress bar as they were.
C3_PrerequisiteGate ==
    [][ (pc = "dragging" /\ currentStep = 1 /\ lastName # "motherboardLabel") =>
            /\ currentStep' = 1 /\ dontMove' = dontMove /\ placed' = placed
            /\ progressBar' = progressBar
            /\ (pc' # "dragging" /\ last' # last) =>
                  /\ last'.part = lastName /\ last'.answered /\ ~last'.correct
                  /\ reset' /\ pc' = "dialog" ]_vars

C3_Witness ==
    /\ last.part = "cpuLabel" /\ last.cursor = <<320, 300>> /\ last.stage = 1
    /\ last.answered /\ ~last.correct /\ last.snapped = <<200, 245>>
    /\ currentStep = 1 /\ Locked = <<>> /\ pc = "idle"

\* C5: once a component is in dontMove, a mouse press on it returns early and
\* changes nothing; no drag of it starts, no drop of it reaches the checker,
\* and so no attempt on it changes the step, the progress bar or the locked set.
C5_LockedNotEvaluated ==
    [][ /\ (pc' = "dragging") => (lastName' \notin Range(dontMove'))
        /\ (last' # last) => (last'.part \notin Range(dontMove))
        /\ (ignored' # ignored /\ ignored' # "none") =>
              /\ ignored' \in Range(dontMove)
              /\ UNCHANGED <<currentStep, placed, progressBar, dontMove, pos,
                             lastName, location, winWindows, pc, last>>
        /\ (currentStep' # currentStep \/ progressBar' # progressBar
               \/ dontMove' # dontMove) =>
              (pc = "dragging" /\ lastName \notin Range(dontMove)) ]_vars

C5_Witness ==
    /\ ignored = "motherboardLabel" /\ "motherboardLabel" \in Range(Locked)
    /\ "cpuLabel" \in Range(Locked)
    /\ currentStep = 3 /\ progressBar = 33 /\ Len(Locked) = 2

\* C6: in every state the progress bar shows the integer part of
\* 100 * |locked set| / 6, and neither the locked set exceeds 6 nor the bar 100.
C6_ProgressIsLockedFraction ==
    /\ progressBar = (100 * Len(Locked)) \div 6
    /\ Len(Locked) <= 6
    /\ progressBar <= 100

C6_Witness ==
    /\ Len(Locked) = N /\ progressBar = 100 /\ isCompleted

\* C7: no identifier occurs twice in dontMove.
C7_LockedOnce ==
    \A i, j \in 1..Len(dontMove) : i # j => dontMove[i] # dontMove[j]

C7_Witness ==
    /\ Len(Locked) >= 3 /\ ignored \in Range(Locked)
    /\ last.answered /\ ~last.correct /\ pc = "idle"

\* C8: after a drop has been handled completely (the result dialog closed),
\* the dropped icon stands at the snapped point of that drop if the answer was
\* correct, and at the position it had before the drag if it was incorrect.
C8_CommittedPosition ==
    (pc # "dialog" /\ last.answered) =>
        pos[last.part] = (IF last.correct THEN last.snapped ELSE last.origin)

C8_Witness ==
    /\ pc = "idle" /\ last.answered /\ ~last.correct
    /\ last.snapped # last.origin /\ pos[last.part] = InitPos[last.part]
    /\ Len(Locked) = 1 /\ last.stage = 2

\* C9: a drop answered incorrect changes neither the step, nor the locked set,
\* nor the progress bar, nor the completion signal, both when the answer
\* arrives and when its dialog is closed; afterwards the window is idle again
\* and the rejected component is not in dontMove, so it can be dragged again.
C9_RejectFrame ==
    [][ /\ (pc = "dragging" /\ pc' = "dialog" /\ ~last'.correct) =>
              /\ UNCHANGED <<currentStep, placed, dontMove, progressBar, winWindows,
                             labelVisible, labelText>>
              /\ lastName \notin Range(dontMove')
        /\ (pc = "dialog" /\ ~last.correct /\ pc' # "dialog") =>
              /\ UNCHANGED <<currentStep, placed, dontMove, progressBar, winWindows,
                             labelVisible, labelText>>
              /\ pc' = "idle"
              /\ last.part \in Components \ Range(dontMove') ]_vars

C9_Witness ==
    /\ pc = "idle" /\ last.answered /\ ~last.correct /\ last.stage = N
    /\ Len(Locked) = N - 1 /\ ~isCompleted /\ currentStep = N

-----------------------------------------------------------------------------
(* The zones as the claims list them, in declaration order *)

ZoneIds == 1..6

ZoneHit(z, cursor) ==
    CASE z = 1 -> InMotherboard(cursor)
      [] z = 2 -> InCpu(cursor)
      [] z = 3 -> InMemory(cursor)
      [] z = 4 -> InGpu(cursor)
      [] z = 5 -> InRam1(cursor)
      [] z = 6 -> InRam2(cursor)

ZonePoint(z) ==
    CASE z = 1 -> <<200, 245>>
      [] z = 2 -> <<315, 295>>
      [] z = 3 -> <<260, 370>>
      [] z = 4 -> <<200, 370>>
      [] z = 5 -> <<423, 270>>
      [] z = 6 -> <<443, 270>>

ZoneOwner(z) ==
    CASE z = 1 -> "motherboardLabel"
      [] z = 2 -> "cpuLabel"
      [] z = 3 -> "memoryLabel"
      [] z = 4 -> "gpuLabel"
      [] z = 5 -> "ramLabel1"
      [] z = 6 -> "ramLabel2"

\* The zones that are legal targets at a stage
ZonesAt(stage) ==
    IF stage = 1 THEN {1} ELSE IF stage \in 2..6 THEN 2..6 ELSE {}

\* The legal zones of the last drop's stage that contain its cursor point
Hits == {z \in ZonesAt(last.stage) : ZoneHit(z, last.cursor)}

\* Those of them that belong to the dragged component
OwnHits == {z \in Hits : ZoneOwner(z) = last.part}

FirstHit == CHOOSE z \in Hits : \A y \in Hits : z <= y

\* C4: for every zone that is a legal target at the current stage and every
\* cursor point inside its closed rectangle, the drop handler's snapped point
\* is exactly that zone's canonical point.
C4_SnapToZonePoint ==
    (last.part # "none") =>
        \A z \in Hits : last.snapped = ZonePoint(z)

\* C10 as claimed: a cursor point in no zone of the dragged component gets the
\* cursor-follow fallback point, never another component's canonical point.
C10_SnapOnlyOwnZones ==
    (last.part # "none" /\ OwnHits = {}) =>
        last.snapped = CursorFollow(last.cursor, size[last.part])

\* C10 as amended: snapLocation looks at every zone of the current stage,
\* whatever is dragged.  A cursor point in no zone of the dragged component
\* but inside another component's zone gets the canonical point of the first
\* such zone in declaration order; the drop is answered incorrect and,
\* once its dialog is closed, the icon is back where it was before the drag.
\* Only a point outside every zone of the stage gets the cursor-follow point.
C10_SnapIgnoresComponent ==
    (last.part # "none" /\ OwnHits = {}) =>
        /\ (Hits # {}) =>
              /\ last.snapped = ZonePoint(FirstHit)
              /\ last.answered /\ ~last.correct
              /\ currentStep = last.stage
              /\ last.part \notin Range(dontMove)
              /\ (pc # "dialog") => (pos[last.part] = last.origin)
        /\ (Hits = {}) =>
              last.snapped = CursorFollow(last.cursor, size[last.part])

C10_Witness ==
    /\ last.part = "cpuLabel" /\ last.stage = 2 /\ last.cursor = <<300, 400>>
    /\ last.snapped = <<260, 370>> /\ last.answered /\ ~last.correct
    /\ pc = "idle" /\ pos["cpuLabel"] = InitPos["cpuLabel"]

\* C11: once the motherboard is locked the other five components can be
\* placed in any order: at every stage 2..6 the snapped point of a drop is the
\* one stage 2 gives for the same cursor point, and a drop of a component with
\* the cursor inside that component's own zone is answered correct and raises
\* the step by one, the sixth such placement completing the session.
C11_FreeOrder ==
    (last.part # "none" /\ last.stage \in 2..N /\ OwnHits # {}) =>
        /\ last.snapped = snapLocation(last.cursor, 2, size[last.part])
        /\ last.answered /\ last.correct
        /\ currentStep = last.stage + 1
        /\ last.part \in Range(Locked)
        /\ (last.stage = N) => isCompleted

\* C11 on the drops whose cursor point lies in no zone declared before the
\* dragged component's own (the drops the overlapping rectangles do not
\* affect): there every order of the five components is accepted.
C11_FreeOrderOffOverlap ==
    (last.part # "none" /\ last.stage \in 2..N /\ OwnHits # {}
       /\ FirstHit \in OwnHits) =>
        /\ last.snapped = snapLocation(last.cursor, 2, size[last.part])
        /\ last.answered /\ last.correct
        /\ currentStep = last.stage + 1
        /\ (last.stage = N) => isCompleted

\* C12: a cursor point inside two zones of the active stage (the CPU and the
\* memory rectangle in [315,350]x[370,375], the two RAM rectangles on x = 440)
\* is snapped to the canonical point of the zone declared first.
C12_FirstZoneWins ==
    (last.part # "none") =>
        /\ (Cardinality(Hits) >= 2) => (last.snapped = ZonePoint(FirstHit))
        /\ (/\ last.stage \in 2..6
            /\ InRect(last.cursor, 315, 350, 370, 375)) =>
              (last.snapped = <<315, 295>>)
        /\ (/\ last.stage \in 2..6
            /\ InRect(last.cursor, 440, 440, 280, 410)) =>
              (last.snapped = <<423, 270>>)

C12_Witness ==
    /\ last.part = "ramLabel2" /\ last.cursor = <<440, 410>> /\ last.stage = 3
    /\ Hits = {5, 6} /\ last.snapped = <<423, 270>>
    /\ last.answered /\ ~last.correct

\* C13: the snapped point is the cursor-follow point (cursor minus half the
\* dragged icon's size) when the cursor is outside every closed rectangle of
\* the stage, and the canonical point of a zone when it is inside one, edges
\* and corners included; at a step past the last stage, where no rectangle is
\* active, snapLocation gives every point the cursor-follow point.
C13_FallbackIffOutside ==
    (last.part # "none") =>
        /\ (Hits = {}) =>
              last.snapped = <<TruncHalf(2 * last.cursor[1] - size[last.part][1]),
                               TruncHalf(2 * last.cursor[2] - size[last.part][2])>>
        /\ (Hits # {}) => (last.snapped \in {ZonePoint(z) : z \in Hits})
        /\ snapLocation(last.cursor, N + 1, size[last.part]) =
              CursorFollow(last.cursor, size[last.part])

C13_Witness ==
    /\ last.part = "gpuLabel" /\ last.stage = 2 /\ last.cursor = <<350, 550>>
    /\ last.snapped = <<200, 370>> /\ last.correct /\ currentStep = 3

\* C14: as long as the session is not completed the checker's step is the
\* number of locked components plus one; the step and the locked set change
\* only together, on a drop answered correct, each by exactly one.
C14_StageIsLockedPlusOne ==
    [][ /\ (~isCompleted) => (currentStep = Len(Locked) + 1)
        /\ (winWindows' = 0) => (currentStep' = Len(Locked') + 1)
        /\ (currentStep' # currentStep \/ dontMove' # dontMove) =>
              /\ pc = "dragging" /\ last'.answered /\ last'.correct
              /\ last'.part = lastName
              /\ currentStep' = currentStep + 1
              /\ dontMove' = Append(dontMove, lastName)
        /\ (last' # last /\ last'.answered /\ last'.correct) =>
              (currentStep' = currentStep + 1 /\ Len(Locked') = Len(Locked) + 1)
      ]_vars

C14_Witness ==
    /\ currentStep = 4 /\ Len(Locked) = 3 /\ last.correct /\ last.stage = 3
    /\ ~isCompleted /\ pc = "dialog"

C16_RevertConsumed ==
    [][ /\ reset => (pc = "dialog" /\ last.answered /\ ~last.correct)
        /\ reset' => (pc' = "dialog" /\ last'.answered /\ ~last'.correct)
        /\ (reset' /\ ~reset) => (pc = "dragging" /\ last'.part = lastName)
        /\ (pc = "dragging") => ~reset
        /\ (pc = "dialog" /\ last.correct /\ pc' # "dialog") =>
              (pos' = pos /\ pos'[last.part] = last.snapped) ]_vars

C16_Witness ==
    /\ reset /\ pc = "dialog" /\ ~last.correct /\ Len(Locked) = 2
    /\ pos[last.part] = last.snapped /\ last.snapped # last.origin

\* C17: once completedTesting has been emitted nothing changes the step, the
\* locked set or the progress bar any more, no drag starts, and the signal is
\* not emitted a second time.
C17_CompletedIsTerminal ==
    [][ /\ isCompleted =>
              /\ UNCHANGED <<currentStep, placed, dontMove, progressBar,
                             winWindows, pos, last, labelVisible, labelText>>
              /\ pc' \in {"idle", "hidden"}
        /\ winWindows' <= 1 ]_vars

C17_Witness ==
    /\ isCompleted /\ ignored = "ramLabel2" /\ currentStep = 7
    /\ Len(Locked) = N /\ pc = "idle" /\ winWindows = 1

\* C18: drop events are handled one at a time.  While the result dialog of a
\* drop is open no other press or drop is handled; a drop is handed to the
\* checker only during a drag, with the revert of the previous drop applied
\* and location holding the dragged icon's position; and a timer callback
\* changes nothing but the colour index.
C18_OneDropAtATime ==
    [][ /\ (pc = "dialog") =>
              /\ pc' \in {"dialog", "idle"}
              /\ UNCHANGED <<currentStep, placed, dontMove, lastName, location,
                             last, progressBar, winWindows, ignored>>
        /\ (last' # last) =>
              /\ pc = "dragging" /\ ~reset
              /\ last'.part = lastName /\ location = pos[lastName]
              /\ last.answered =>
                    pos[last.part] =
                        (IF last.correct THEN last.snapped ELSE last.origin)
        /\ (progressLabelIndex' # progressLabelIndex) =>
              UNCHANGED <<currentStep, placed, dontMove, reset, location,
                          lastName, lastSize, pos, pc, last, progressBar,
                          winWindows>> ]_vars

C18_Witness ==
    /\ pc = "dialog" /\ reset /\ progressLabelIndex = 3
    /\ Len(Locked) = 1 /\ last.part = "gpuLabel" /\ ~last.correct

====
